---- MODULE Spec2Model ----
(***************************************************************************)
(* Model of src/app.py: the RetirementPlanner class (calculate_viability,  *)
(* solve_required_capital, calculate_swr_health).                          *)
(*                                                                         *)
(* Numbers.  The Python code computes on int and float values.  The model  *)
(* computes on exact rationals: a number is a record                       *)
(*     [neg |-> sign, mag |-> magnitude of the numerator, e |-> exponents] *)
(* that stands for  (+/-) mag / (2^e[1] * 3^e[2] * 5^e[3] * 7^e[4]).       *)
(* The magnitude is an arbitrary-precision natural, a little-endian        *)
(* sequence of limbs in 0..Base-1 without leading zero limbs, so that no   *)
(* intermediate value overflows a machine integer.  Every rate, tax and    *)
(* divisor drawn below has a denominator of this shape, so +, -, *, / and  *)
(* the comparisons are exact; binary64 rounding is not modelled.           *)
(***************************************************************************)
EXTENDS Integers, Sequences, FiniteSets, TLC

Base == 2^15

Primes == <<2, 3, 5, 7>>

NoExp == <<0, 0, 0, 0>>

----------------------------------------------------------------------------
(* Arbitrary-precision naturals *)

RECURSIVE MagTrim(_)
MagTrim(a) ==
    IF a = <<>> THEN a
    ELSE IF a[Len(a)] # 0 THEN a
    ELSE MagTrim(SubSeq(a, 1, Len(a) - 1))

RECURSIVE MagOfNat(_)
MagOfNat(k) == IF k = 0 THEN <<>> ELSE <<k % Base>> \o MagOfNat(k \div Base)

RECURSIVE MagCmpFrom(_, _, _)
MagCmpFrom(a, b, i) ==
    IF i = 0 THEN 0
    ELSE IF a[i] < b[i] THEN -1
    ELSE IF a[i] > b[i] THEN 1
    ELSE MagCmpFrom(a, b, i - 1)

\* -1, 0, 1 as a < b, a = b, a > b
MagCmp(a, b) ==
    IF Len(a) < Len(b) THEN -1
    ELSE IF Len(a) > Len(b) THEN 1
    ELSE MagCmpFrom(a, b, Len(a))

RECURSIVE MagAddC(_, _, _, _)
MagAddC(a, b, i, c) ==
    IF i > Len(a) /\ i > Len(b) THEN (IF c = 0 THEN <<>> ELSE <<c>>)
    ELSE LET t == (IF i <= Len(a) THEN a[i] ELSE 0)
                  + (IF i <= Len(b) THEN b[i] ELSE 0) + c
         IN  <<t % Base>> \o MagAddC(a, b, i + 1, t \div Base)

MagAdd(a, b) == MagAddC(a, b, 1, 0)

RECURSIVE MagSubC(_, _, _, _)
MagSubC(a, b, i, c) ==
    IF i > Len(a) THEN <<>>
    ELSE LET t == a[i] - (IF i <= Len(b) THEN b[i] ELSE 0) - c
         IN  IF t < 0 THEN <<t + Base>> \o MagSubC(a, b, i + 1, 1)
             ELSE <<t>> \o MagSubC(a, b, i + 1, 0)

\* a - b for a >= b
MagSub(a, b) == MagTrim(MagSubC(a, b, 1, 0))

RECURSIVE MagMulC(_, _, _, _)
MagMulC(a, k, i, c) ==
    IF i > Len(a) THEN (IF c = 0 THEN <<>> ELSE <<c>>)
    ELSE LET t == a[i] * k + c
         IN  <<t % Base>> \o MagMulC(a, k, i + 1, t \div Base)

\* a * k for a limb 0 <= k < Base
MagMulS(a, k) == IF k = 0 \/ a = <<>> THEN <<>> ELSE MagMulC(a, k, 1, 0)

RECURSIVE MagMul(_, _)
MagMul(a, b) ==
    IF b = <<>> \/ a = <<>> THEN <<>>
    ELSE IF Len(b) = 1 THEN MagMulS(a, b[1])
    ELSE LET rest == MagMul(a, Tail(b))
         IN  MagAdd(MagMulS(a, b[1]), IF rest = <<>> THEN <<>> ELSE <<0>> \o rest)

RECURSIVE SmallPow(_, _)
SmallPow(p, k) == IF k = 0 THEN 1 ELSE p * SmallPow(p, k - 1)

\* a * p^k, where q = p^c is the largest power of p that is a limb
RECURSIVE MagScale(_, _, _, _, _)
MagScale(a, p, q, c, k) ==
    IF k = 0 \/ a = <<>> THEN a
    ELSE IF k >= c THEN MagScale(MagMulS(a, q), p, q, c, k - c)
    ELSE MagMulS(a, SmallPow(p, k))

\* a * 2^k: whole limbs are shifted in, the rest is one multiplication
MagScale2(a, k) ==
    IF k = 0 \/ a = <<>> THEN a
    ELSE [i \in 1..(k \div 15) |-> 0]
         \o (IF k % 15 = 0 THEN a ELSE MagMulS(a, 2^(k % 15)))

\* a * 2^d[1] * 3^d[2] * 5^d[3] * 7^d[4]
MagScaleAll(a, d) ==
    MagScale2(MagScale(MagScale(MagScale(a, 3, 3^9, 9, d[2]), 5, 5^6, 6, d[3]),
                       7, 7^5, 5, d[4]), d[1])

----------------------------------------------------------------------------
(* Exact rationals *)

\* the exponent of p in k (k >= 1)
RECURSIVE ExpOf(_, _)
ExpOf(p, k) == IF k % p = 0 THEN 1 + ExpOf(p, k \div p) ELSE 0

SmoothExps(k) == [i \in 1..4 |-> ExpOf(Primes[i], k)]

Abs(k) == IF k < 0 THEN -k ELSE k

\* the integer k
Int2Num(k) == [neg |-> k < 0, mag |-> MagOfNat(Abs(k)), e |-> NoExp]

\* the fraction n / d, d >= 1 a product of powers of 2, 3, 5, 7
Frac(n, d) == [neg |-> n < 0, mag |-> MagOfNat(Abs(n)), e |-> SmoothExps(d)]

Zero == Int2Num(0)

IsZero(x) == x.mag = <<>>

\* x > 0, x < 0, x <= 0
IsPos(x) == x.mag # <<>> /\ ~x.neg

IsNeg(x) == x.mag # <<>> /\ x.neg

NonPos(x) == ~IsPos(x)

MaxExp(e, f) == [i \in 1..4 |-> IF e[i] > f[i] THEN e[i] ELSE f[i]]

\* the numerator of x over the denominator with exponents g (g >= x.e)
Lift(x, g) ==
    IF x.e = g THEN x.mag ELSE MagScaleAll(x.mag, [i \in 1..4 |-> g[i] - x.e[i]])

Neg(x) == IF x.mag = <<>> THEN x ELSE [x EXCEPT !.neg = ~x.neg]

\* (+/-) a - (+/-) b over the denominator g, c the comparison of a with b
SubMag(xn, a, yn, b, g, c) ==
    IF c = 0 THEN Zero
    ELSE IF c > 0 THEN [neg |-> xn, mag |-> MagSub(a, b), e |-> g]
    ELSE [neg |-> yn, mag |-> MagSub(b, a), e |-> g]

\* (+/-) a + (+/-) b over the denominator g
AddMag(xn, a, yn, b, g) ==
    IF xn = yn THEN [neg |-> xn, mag |-> MagAdd(a, b), e |-> g]
    ELSE SubMag(xn, a, yn, b, g, MagCmp(a, b))

AddLifted(x, y, g) == AddMag(x.neg, Lift(x, g), y.neg, Lift(y, g), g)

Add(x, y) ==
    IF y.mag = <<>> THEN x
    ELSE IF x.mag = <<>> THEN y
    ELSE AddLifted(x, y, MaxExp(x.e, y.e))

Sub(x, y) == Add(x, Neg(y))

Mul(x, y) ==
    IF x.mag = <<>> \/ y.mag = <<>> THEN Zero
    ELSE [neg |-> x.neg # y.neg, mag |-> MagMul(x.mag, y.mag),
          e |-> [i \in 1..4 |-> x.e[i] + y.e[i]]]

DivExp(xe, s) == [i \in 1..4 |-> xe[i] + s[i]]

\* x / y for y # 0 whose numerator is a limb and a product of powers of 2, 3, 5, 7
Div(x, y) ==
    IF x.mag = <<>> THEN Zero
    ELSE [neg |-> x.neg # y.neg, mag |-> MagScaleAll(x.mag, y.e),
          e |-> DivExp(x.e, SmoothExps(y.mag[1]))]

CmpLifted(x, y, g) == MagCmp(Lift(x, g), Lift(y, g))

CmpSigned(neg, c) == IF neg THEN -c ELSE c

\* -1, 0, 1 as x < y, x = y, x > y
Cmp(x, y) ==
    IF x.mag = <<>> THEN (IF y.mag = <<>> THEN 0 ELSE IF y.neg THEN 1 ELSE -1)
    ELSE IF y.mag = <<>> THEN (IF x.neg THEN -1 ELSE 1)
    ELSE IF x.neg # y.neg THEN (IF x.neg THEN -1 ELSE 1)
    ELSE CmpSigned(x.neg, CmpLifted(x, y, MaxExp(x.e, y.e)))

Leq(x, y) == Cmp(x, y) <= 0

Lt(x, y) == Cmp(x, y) < 0

NumEq(x, y) == Cmp(x, y) = 0

----------------------------------------------------------------------------
(* The planner object and the activations of its methods *)

VARIABLES
    inputs,          \* self.inputs: the input record handed to __init__
    lump_sum,        \* self.lump_sum
    horizon_months,  \* self.horizon_months
    th,              \* per thread: the method it runs, its position and its locals
    first,           \* the first completed calculate_viability call of the session
    second           \* the second completed calculate_viability call of the session

vars == <<inputs, lump_sum, horizon_months, th, first, second>>

Threads == {1, 2}

One == Int2Num(1)

Twelve == Int2Num(12)

\* max(0, x), line 44
Max0(x) == IF IsNeg(x) THEN Zero ELSE x

\* (m - 1) // 12 + 1, line 28
YearOf(m) == (m - 1) \div 12 + 1

\* a variant of monthly_rate that never applies the crash rate
monthly_rate_no_crash(inp, year, crash_rate, crash_years) ==
    Div(inp.expected_return, Twelve)

\* lines 30-34: the crash rate during the first crash_years years, else the expected return
monthly_rate(inp, year, crash_rate, crash_years) ==
    IF year <= crash_years THEN Div(crash_rate, Twelve)
    ELSE Div(inp.expected_return, Twelve)

\* lines 19-25: the locals of calculate_viability before the loop
ViabilityEntry(inp, lump, crash_rate, crash_years) ==
    [ op |-> "calculate_viability", pc |-> "loop",
      crash_rate |-> crash_rate, crash_years |-> crash_years,
      m |-> 0, balance |-> lump, start |-> lump,
      current_div |-> inp.current_dividends,
      current_expense |-> inp.target_payout,
      gross_withdrawal |-> Zero,
      data |-> <<>>, is_solvent |-> TRUE, insolvency_msg |-> <<"Solvent", 0>>,
      hist |-> <<>> ]   \* history: was the balance after line 46 <= 0, month by month

\* a variant of DepleteNow with the comparison of line 48 inverted
DepleteNowInverted(balance, is_solvent) == ~NonPos(balance) /\ is_solvent

\* a variant of DepleteNow without the "and is_solvent" of line 48
DepleteNowUnguarded(balance, is_solvent) == NonPos(balance)

\* lines 48-51: the first time the balance is <= 0 the run is marked insolvent, the
\* year recorded and the balance set to 0
DepleteNow(balance, is_solvent) == NonPos(balance) /\ is_solvent

\* lines 53-59: a row at every twelfth month and at the last month
SampleNow(m, H) == m % 12 = 0 \/ m = H

\* lines 37-39: at the start of every year after the first the amount grows by g
Escalate(m, amount, g) ==
    IF m > 1 /\ (m - 1) % 12 = 0 THEN Mul(amount, Add(One, g)) ELSE amount

\* line 42: balance += balance * monthly_rate
Grow(balance, rate) == Add(balance, Mul(balance, rate))

\* lines 43-44
NetShortfall(inp, current_div, current_expense) ==
    Max0(Sub(current_expense, Add(inp.other_income, current_div)))

\* line 45: net_shortfall / (1 - tax_rate), for 1 - tax_rate # 0
GrossWithdrawal(net_shortfall, keep) == Div(net_shortfall, keep)

\* lines 48-59 for month m: dep is the condition of line 48, bal the balance it leaves
Commit(H, l, m, cd, ce, gross, after, dep, bal) ==
    [l EXCEPT !.m = m, !.current_div = cd, !.current_expense = ce,
              !.gross_withdrawal = gross, !.balance = bal,
              !.hist = Append(l.hist, NonPos(after)),
              !.is_solvent = IF dep THEN FALSE ELSE l.is_solvent,
              !.insolvency_msg = IF dep THEN <<"DEPLETED", YearOf(m)>>
                                 ELSE l.insolvency_msg,
              !.data = IF SampleNow(m, H)
                       THEN Append(l.data, [Year |-> YearOf(m), Expenses |-> ce,
                                            Withdrawal |-> gross, Balance |-> bal])
                       ELSE l.data]

Settle(H, l, m, cd, ce, gross, after, dep) ==
    Commit(H, l, m, cd, ce, gross, after, dep, IF dep THEN Zero ELSE after)

\* line 46 for month m, after is the balance less the withdrawal
Withdrawn(H, l, m, cd, ce, gross, after) ==
    Settle(H, l, m, cd, ce, gross, after, DepleteNow(after, l.is_solvent))

\* lines 43-59 for month m; the division of line 45 raises ZeroDivisionError when
\* keep = 1 - tax_rate is 0
Withdraw(H, l, m, cd, ce, grown, net_shortfall, keep) ==
    IF IsZero(keep)
    THEN [l EXCEPT !.pc = "raised", !.m = m, !.current_div = cd,
                   !.current_expense = ce, !.balance = grown]
    ELSE Withdrawn(H, l, m, cd, ce, GrossWithdrawal(net_shortfall, keep),
                   Sub(grown, GrossWithdrawal(net_shortfall, keep)))

\* lines 36-59 for month m, with the escalated dividend cd and expense ce
Escalated(inp, H, l, m, cd, ce) ==
    Withdraw(H, l, m, cd, ce,
             Grow(l.balance, monthly_rate(inp, YearOf(m), l.crash_rate, l.crash_years)),
             NetShortfall(inp, cd, ce), Sub(One, inp.tax_rate))

\* lines 27-59: one iteration of the loop, for month l.m + 1
MonthStep(inp, H, l) ==
    Escalated(inp, H, l, l.m + 1,
              Escalate(l.m + 1, l.current_div, inp.gdp_growth),
              Escalate(l.m + 1, l.current_expense, inp.inflation_rate))

\* lines 27-61: the loop run to its end (or to the exception)
RECURSIVE RunLoop(_, _, _)
RunLoop(inp, H, l) ==
    IF l.pc = "raised" \/ l.m >= H THEN l ELSE RunLoop(inp, H, MonthStep(inp, H, l))

\* lines 18-61: calculate_viability from the starting capital lump
CalculateViability(inp, H, lump, crash_rate, crash_years) ==
    RunLoop(inp, H, ViabilityEntry(inp, lump, crash_rate, crash_years))

----------------------------------------------------------------------------
(* The input record (lines 145-149) and __init__ (lines 13-16) *)

MaxYears == 2

NoShock == [crash_rate |-> Zero, crash_years |-> 0]

\* the shock of the default stress test: -20% a year for 2 years (lines 177-178)
Stress == [crash_rate |-> Frac(-1, 5), crash_years |-> 2]

Shocks == {NoShock, Stress}

MkInputs(lump, other, div, target, tax, years, infl, gdp, ret) ==
    [ lump_sum |-> lump, other_income |-> other, current_dividends |-> div,
      target_payout |-> target, tax_rate |-> tax, horizon_years |-> years,
      inflation_rate |-> infl, gdp_growth |-> gdp, expected_return |-> ret ]

\* target spend less the two incomes of the first month
InitialShortfall(inp) ==
    Sub(inp.target_payout, Add(inp.other_income, inp.current_dividends))

\* the rates and amounts of section 3 of the specification: tax rate in [0, 1),
\* incomes, spend and growth rates >= 0
ValidRates(inp) ==
    /\ ~IsNeg(inp.tax_rate) /\ Lt(inp.tax_rate, One)
    /\ ~IsNeg(inp.other_income) /\ ~IsNeg(inp.current_dividends)
    /\ ~IsNeg(inp.target_payout)
    /\ ~IsNeg(inp.inflation_rate) /\ ~IsNeg(inp.gdp_growth)

\* the domain of section 3 of the specification: valid rates and amounts, a positive
\* starting capital and a positive horizon
ValidInput(inp) ==
    ValidRates(inp) /\ IsPos(inp.lump_sum) /\ inp.horizon_years >= 1

Capitals == {Int2Num(0), Int2Num(40), Int2Num(90)}

\* <<inflation rate, dividend growth rate>>
Growths == {<<Zero, Zero>>, <<Frac(1, 2), One>>}

SimInputs ==
    { MkInputs(c, One, d, Int2Num(4), t, y, g[1], g[2], r) :
        c \in Capitals, d \in {Zero, Int2Num(2)},
        t \in {Zero, Frac(1, 5), One, Int2Num(2)},
        y \in 0..MaxYears, g \in Growths, r \in {Frac(-3, 8), Zero, Frac(3, 8)} }

Idle == [op |-> "idle", pc |-> "idle"]

None == [outcome |-> "none"]

\* __init__, lines 13-16
Construct(inp) ==
    /\ inputs' = inp
    /\ lump_sum' = inp.lump_sum
    /\ horizon_months' = inp.horizon_years * 12

----------------------------------------------------------------------------
(* calculate_viability, one loop iteration a step *)

\* what a completed call leaves to its caller (line 61), or the exception
Outcome(t, l) ==
    [ outcome |-> IF l.pc = "raised" THEN "raised" ELSE "returned",
      thread |-> t, start |-> l.start, crash_rate |-> l.crash_rate, crash_years |-> l.crash_years,
      data |-> l.data, is_solvent |-> l.is_solvent,
      insolvency_msg |-> l.insolvency_msg, hist |-> l.hist ]

\* lines 18-25: the call reads self.lump_sum and self.inputs
CallViability(t, sh) ==
    /\ th[t] = Idle
    /\ th' = [th EXCEPT ![t] = ViabilityEntry(inputs, lump_sum, sh.crash_rate, sh.crash_years)]
    /\ UNCHANGED <<inputs, lump_sum, horizon_months, first, second>>

\* lines 27-59: the next month
Month(t) ==
    /\ th[t].op = "calculate_viability" /\ th[t].pc = "loop"
    /\ th[t].m < horizon_months
    /\ th' = [th EXCEPT ![t] = MonthStep(inputs, horizon_months, th[t])]
    /\ UNCHANGED <<inputs, lump_sum, horizon_months, first, second>>

\* the caller keeps what the call left: the first completed call, then the second
Keep(o) ==
    IF first = None THEN first' = o /\ second' = second
    ELSE second' = o /\ first' = first

\* line 61, or the ZeroDivisionError leaving the method
ReturnViability(t) ==
    /\ th[t].op = "calculate_viability"
    /\ th[t].pc = "raised" \/ th[t].m >= horizon_months
    /\ th' = [th EXCEPT ![t] = Idle]
    /\ Keep(Outcome(t, th[t]))
    /\ UNCHANGED <<inputs, lump_sum, horizon_months>>

\* a planner for the same inputs with a larger starting capital (lines 97, 151)
NewPlanner(c) ==
    /\ \A t \in Threads : th[t] = Idle
    /\ first # None /\ second = None
    /\ Lt(lump_sum, c)
    /\ Construct([inputs EXCEPT !.lump_sum = c])
    /\ UNCHANGED <<th, first, second>>

\* the session compares two calls: the second differs from the first either in the
\* starting capital alone or, after a call without shock, in the shock alone
MayCall(sh) ==
    /\ second = None
    /\ first # None =>
         \/ /\ ~NumEq(lump_sum, first.start)
            /\ sh.crash_rate = first.crash_rate /\ sh.crash_years = first.crash_years
         \/ /\ NumEq(lump_sum, first.start)
            /\ first.crash_years = 0 /\ sh # NoShock

Init ==
    /\ \E inp \in SimInputs : inputs = inp
    /\ lump_sum = inputs.lump_sum
    /\ horizon_months = inputs.horizon_years * 12
    /\ th = [t \in Threads |-> Idle]
    /\ first = None
    /\ second = None

Next ==
    \/ \E sh \in Shocks : MayCall(sh) /\ CallViability(1, sh)
    \/ Month(1)
    \/ ReturnViability(1)
    \/ \E c \in Capitals : NewPlanner(c)

Spec == Init /\ [][Next]_vars

----------------------------------------------------------------------------
(* Properties of calculate_viability, checked under Spec *)

\* the activation of calculate_viability by thread t, between its call and its return
Running(t) == th[t].op = "calculate_viability"

\* the balance of the last row of a non-empty trajectory
FinalBalance(o) == o.data[Len(o.data)].Balance

\* the first month of hist whose balance after the withdrawal was <= 0, or 0
FirstNonPos(hist) ==
    IF \E i \in DOMAIN hist : hist[i]
    THEN CHOOSE i \in DOMAIN hist : hist[i] /\ \A j \in 1..(i - 1) : ~hist[j]
    ELSE 0

\* the verdict that the history of a run calls for
VerdictOf(hist) ==
    IF FirstNonPos(hist) = 0 THEN <<"Solvent", 0>>
    ELSE <<"DEPLETED", YearOf(FirstNonPos(hist))>>

\* C1: in a run on a valid input, once the balance after a withdrawal was <= 0 and
\* was set to 0, the balance is exactly 0 at the end of every later month.
C1_BalanceStaysZero ==
    \A t \in Threads :
        (Running(t) /\ th[t].pc = "loop" /\ ValidInput(inputs) /\ ~th[t].is_solvent)
            => IsZero(th[t].balance)

\* two completed calls that returned, the second from a larger starting capital and
\* with the same shock
CapitalPair ==
    /\ first # None /\ second # None
    /\ first.outcome = "returned" /\ second.outcome = "returned"
    /\ first.crash_rate = second.crash_rate /\ first.crash_years = second.crash_years
    /\ Lt(first.start, second.start)

\* C4: of two runs that differ only in the starting capital, the run from the larger
\* capital has a final sampled balance at least as large, and is solvent whenever the
\* run from the smaller capital is solvent.
C4_MonotoneInCapital ==
    (CapitalPair /\ ValidRates(inputs)) =>
        /\ first.is_solvent => second.is_solvent
        /\ Len(first.data) = Len(second.data)
        /\ Len(first.data) > 0 => Leq(FinalBalance(first), FinalBalance(second))

\* the larger capital turns an insolvent run into a solvent one with a strictly larger
\* final balance
C4_Witness ==
    /\ CapitalPair /\ ValidRates(inputs)
    /\ ~first.is_solvent /\ second.is_solvent
    /\ Len(first.data) = MaxYears
    /\ Lt(FinalBalance(first), FinalBalance(second))

\* two completed calls that returned from the same capital over at least two years,
\* the first without shock, the second with -20% a year for the first 2 years
ShockPair ==
    /\ first # None /\ second # None
    /\ first.outcome = "returned" /\ second.outcome = "returned"
    /\ first.crash_years = 0
    /\ second.crash_rate = Stress.crash_rate /\ second.crash_years = Stress.crash_years
    /\ NumEq(first.start, second.start)
    /\ Len(first.data) >= 2 /\ Len(second.data) >= 2

\* the run has a positive balance after the withdrawal of each of its first n months
PositiveThrough(o, n) == Len(o.hist) >= n /\ \A i \in 1..n : ~o.hist[i]

\* C6 as stated: for any valid input, the year-2 balance of the run with the shock is
\* strictly lower than the year-2 balance of the run without it.
C6_ShockLowersYear2 ==
    (ShockPair /\ ValidInput(inputs)) =>
        Lt(second.data[2].Balance, first.data[2].Balance)

\* C6 amended: for a valid input with an expected return above -20% a year whose run
\* without shock keeps a positive balance through month 24, the year-2 balance of the
\* run with the shock is strictly lower than that of the run without it.
C6_ShockLowersSolventYear2 ==
    (/\ ShockPair /\ ValidInput(inputs)
     /\ Lt(Stress.crash_rate, inputs.expected_return)
     /\ PositiveThrough(first, 24)) =>
        Lt(second.data[2].Balance, first.data[2].Balance)

\* the run without shock is solvent through year 2 and the shock depletes the capital
C6_Witness ==
    /\ ShockPair /\ ValidInput(inputs)
    /\ Lt(Stress.crash_rate, inputs.expected_return)
    /\ PositiveThrough(first, 24)
    /\ ~second.is_solvent
    /\ Lt(second.data[2].Balance, first.data[2].Balance)

\* C8: on an input with tax rate >= 1 no call of calculate_viability returns a result:
\* every call ends in an error.
C8_TaxAtLeastOneRejected ==
    (first # None /\ ~Lt(inputs.tax_rate, One)) => first.outcome = "raised"

\* the flag and the status an activation or a completed call holds agree with the
\* history of its months
AgreesWithHistory(l) ==
    /\ l.is_solvent <=> FirstNonPos(l.hist) = 0
    /\ l.insolvency_msg = VerdictOf(l.hist)

\* C9: the run is solvent exactly when the balance after the withdrawal was positive
\* in every month so far, and otherwise its status names the year of the first month
\* whose balance after the withdrawal was <= 0, whatever later months do; a horizon
\* of 0 is solvent, and a capital of 0 with a positive shortfall in the first month
\* is depleted in year 1.
C9_VerdictIsFirstDepletion ==
    /\ \A t \in Threads : Running(t) => AgreesWithHistory(th[t])
    /\ \A o \in {first, second} :
         (o # None /\ o.outcome = "returned") =>
            /\ AgreesWithHistory(o)
            /\ Len(o.hist) = horizon_months
            /\ horizon_months = 0 => o.insolvency_msg = <<"Solvent", 0>>
            /\ (/\ horizon_months > 0 /\ IsZero(o.start) /\ ValidRates(inputs)
                /\ IsPos(InitialShortfall(inputs)))
               => o.insolvency_msg = <<"DEPLETED", 1>>

\* a run depleted in year 1 whose balance after the withdrawal is <= 0 again in year 2
C9_Witness ==
    /\ first # None /\ first.outcome = "returned"
    /\ first.insolvency_msg = <<"DEPLETED", 1>>
    /\ Len(first.hist) = 24 /\ first.hist[13] /\ first.hist[24]

----------------------------------------------------------------------------
(* solve_required_capital, one step per access to self.lump_sum *)

Iterations == 30

Two == Int2Num(2)

Ten == Int2Num(10)

\* lines 64-66
SolveEntry(inp, lump, sh) ==
    [ op |-> "solve_required_capital", pc |-> "assign",
      pre |-> [inputs |-> inp, lump_sum |-> lump],   \* history: the planner at the call
      crash_rate |-> sh.crash_rate, crash_years |-> sh.crash_years,
      original_balance |-> lump, low |-> lump, high |-> Mul(lump, Ten),
      mid |-> lump, i |-> 0, assigned |-> 0 ]

\* line 69
Midpoint(low, high) == Div(Add(low, high), Two)

\* a variant of Narrow with the two branches of lines 72-73 exchanged
NarrowSwapped(l, solvent) ==
    IF solvent THEN [l EXCEPT !.low = l.mid, !.i = l.i + 1, !.pc = "assign"]
    ELSE [l EXCEPT !.high = l.mid, !.i = l.i + 1, !.pc = "assign"]

\* lines 72-73: a solvent midpoint becomes the upper bound, an insolvent one the lower
Narrow(l, solvent) ==
    IF solvent THEN [l EXCEPT !.high = l.mid, !.i = l.i + 1, !.pc = "assign"]
    ELSE [l EXCEPT !.low = l.mid, !.i = l.i + 1, !.pc = "assign"]

\* a variant of Required that returns the lower bound
RequiredLow(l) == l.low

\* line 75
Required(l) == l.high

\* a variant of Restored that leaves the last midpoint in self.lump_sum
RestoredMid(l) == l.mid

\* line 76: the value written back to self.lump_sum
Restored(l) == l.original_balance

CallSolve(t, sh) ==
    /\ th[t] = Idle
    /\ th' = [th EXCEPT ![t] = SolveEntry(inputs, lump_sum, sh)]
    /\ UNCHANGED <<inputs, lump_sum, horizon_months, first, second>>

\* lines 68-70: the next midpoint is written to self.lump_sum
SolveAssign(t) ==
    /\ th[t].op = "solve_required_capital" /\ th[t].pc = "assign"
    /\ th[t].i < Iterations
    /\ LET mid == Midpoint(th[t].low, th[t].high)
       IN  /\ th' = [th EXCEPT ![t].mid = mid, ![t].pc = "eval",
                               ![t].assigned = th[t].assigned + 1]
           /\ lump_sum' = mid
    /\ UNCHANGED <<inputs, horizon_months, first, second>>

\* lines 71-73: calculate_viability reads self.lump_sum (line 19) and runs; its
\* verdict narrows the bounds, its exception leaves the method
SolveEval(t) ==
    /\ th[t].op = "solve_required_capital" /\ th[t].pc = "eval"
    /\ LET r == CalculateViability(inputs, horizon_months, lump_sum,
                                   th[t].crash_rate, th[t].crash_years)
       IN  th' = [th EXCEPT ![t] = IF r.pc = "raised" THEN [th[t] EXCEPT !.pc = "raised"]
                                   ELSE Narrow(th[t], r.is_solvent)]
    /\ UNCHANGED <<inputs, lump_sum, horizon_months, first, second>>

\* lines 75-77: the upper bound is returned and self.lump_sum written back; an
\* exception of line 71 leaves without line 76
ReturnSolve(t) ==
    /\ th[t].op = "solve_required_capital"
    /\ \/ /\ th[t].pc = "assign" /\ th[t].i >= Iterations
          /\ lump_sum' = Restored(th[t])
          /\ Keep([outcome |-> "returned", thread |-> t, required |-> Required(th[t]),
                   pre |-> th[t].pre, assigned |-> th[t].assigned,
                   crash_rate |-> th[t].crash_rate, crash_years |-> th[t].crash_years])
       \/ /\ th[t].pc = "raised"
          /\ lump_sum' = lump_sum
          /\ Keep([outcome |-> "raised", thread |-> t])
    /\ th' = [th EXCEPT ![t] = Idle]
    /\ UNCHANGED <<inputs, horizon_months>>

SolveCapitals == {Int2Num(0), Int2Num(4), Int2Num(40)}

SolveInputs ==
    { MkInputs(c, One, Zero, Int2Num(4), t, y, g, Zero, r) :
        c \in SolveCapitals, t \in {Frac(1, 5), One},
        y \in 0..MaxYears, g \in {Zero, Frac(1, 2)}, r \in {Zero, Frac(3, 8)} }

InitSolve ==
    /\ \E inp \in SolveInputs : inputs = inp
    /\ lump_sum = inputs.lump_sum
    /\ horizon_months = inputs.horizon_years * 12
    /\ th = [t \in Threads |-> Idle]
    /\ first = None
    /\ second = None

NextSolve ==
    \/ \E sh \in Shocks : first = None /\ CallSolve(1, sh)
    \/ SolveAssign(1)
    \/ SolveEval(1)
    \/ ReturnSolve(1)

SpecSolve == InitSolve /\ [][NextSolve]_vars

----------------------------------------------------------------------------
(* Properties of solve_required_capital, checked under SpecSolve *)

\* the call of solve_required_capital has returned
Solved == first # None /\ first.outcome = "returned"

\* the verdict of calculate_viability from the starting capital c, on the inputs and
\* with the shock of the call of solve_required_capital
SolventFrom(c) ==
    CalculateViability(first.pre.inputs, horizon_months, c,
                       first.crash_rate, first.crash_years).is_solvent

\* the upper bound of the search, line 66
UpperBound == Mul(first.pre.lump_sum, Ten)

\* the resolution of the search: 9 / 2^30 of the starting capital, the width of the
\* interval of line 66 halved 30 times
Resolution == Mul(first.pre.lump_sum, Frac(9, 2^30))

\* C2 as stated: for every valid input and shock, calculate_viability from the capital
\* that solve_required_capital returned is solvent.
C2_RequiredIsSolvent ==
    (Solved /\ ValidInput(first.pre.inputs)) => SolventFrom(first.required)

\* C2 amended: for every valid input and shock for which calculate_viability is solvent
\* from 10 times the starting capital, calculate_viability from the capital that
\* solve_required_capital returned is solvent.
C2_RequiredIsSolventWithinBound ==
    (Solved /\ ValidInput(first.pre.inputs) /\ SolventFrom(UpperBound))
        => SolventFrom(first.required)

\* a search that found a solvent capital strictly between the starting capital, which
\* is not solvent, and the upper bound
C2_Witness ==
    /\ Solved /\ ValidInput(first.pre.inputs)
    /\ ~SolventFrom(first.pre.lump_sum) /\ SolventFrom(UpperBound)
    /\ Lt(first.pre.lump_sum, first.required) /\ Lt(first.required, UpperBound)
    /\ SolventFrom(first.required)

\* C3: when solve_required_capital returns, self.lump_sum and every field of the input
\* record equal their values before the call.
C3_SolverRestoresPlanner ==
    Solved => /\ NumEq(lump_sum, first.pre.lump_sum)
              /\ inputs = first.pre.inputs

\* a call that wrote 30 midpoints to self.lump_sum, returned a capital other than the
\* starting capital and left the starting capital in place
C3_Witness ==
    /\ Solved /\ first.assigned = Iterations
    /\ ~NumEq(first.required, first.pre.lump_sum)
    /\ NumEq(lump_sum, first.pre.lump_sum)

\* C10 as stated: when calculate_viability is solvent from the starting capital of a
\* valid input, solve_required_capital returns a value <= the starting capital.
C10_AtMostOriginal ==
    (Solved /\ ValidInput(first.pre.inputs) /\ SolventFrom(first.pre.lump_sum))
        => Leq(first.required, first.pre.lump_sum)

\* C10 amended: when calculate_viability is solvent from the starting capital,
\* solve_required_capital returns a value >= the starting capital that exceeds it by at
\* most 9 / 2^30 of it, and strictly exceeds it when the starting capital is positive.
C10_WithinResolutionAboveOriginal ==
    (Solved /\ SolventFrom(first.pre.lump_sum)) =>
        /\ Leq(first.pre.lump_sum, first.required)
        /\ Leq(first.required, Add(first.pre.lump_sum, Resolution))
        /\ IsPos(first.pre.lump_sum) => Lt(first.pre.lump_sum, first.required)

\* a valid input that is solvent from its positive starting capital over a horizon of
\* at least a year, for which the call returned more than the starting capital
C10_Witness ==
    /\ Solved /\ ValidInput(first.pre.inputs)
    /\ SolventFrom(first.pre.lump_sum)
    /\ Lt(first.pre.lump_sum, first.required)

----------------------------------------------------------------------------
(* calculate_swr_health *)

\* lines 87-89
Excellent == Frac(35, 1000)

Good == Frac(45, 1000)

Risky == Frac(6, 100)

\* a variant of Tier with the first upper bound exclusive
TierExclusive(rate) ==
    IF Lt(rate, Excellent) THEN "EXCELLENT (< 3.5%)"
    ELSE IF Leq(rate, Good) THEN "GOOD (Industry Std)"
    ELSE IF Leq(rate, Risky) THEN "RISKY (High Risk)"
    ELSE "DANGER (> 6.0%)"

\* lines 87-90: the tier of a withdrawal rate, each upper bound inclusive
Tier(rate) ==
    IF Leq(rate, Excellent) THEN "EXCELLENT (< 3.5%)"
    ELSE IF Leq(rate, Good) THEN "GOOD (Industry Std)"
    ELSE IF Leq(rate, Risky) THEN "RISKY (High Risk)"
    ELSE "DANGER (> 6.0%)"

\* line 80
InitialGap(inp) ==
    Sub(inp.target_payout, Add(inp.other_income, inp.current_dividends))

\* lines 79-90; the division of line 83 raises ZeroDivisionError when 1 - tax_rate = 0
SwrHealth(inp, lump) ==
    LET initial_gap == InitialGap(inp)
        keep == Sub(One, inp.tax_rate)
    IN  IF NonPos(initial_gap) THEN [outcome |-> "returned", rate |-> Zero, status |-> "SECURE"]
        ELSE IF IsZero(keep) THEN [outcome |-> "raised"]
        ELSE LET gross_annual == Div(Mul(initial_gap, Twelve), keep)
             IN  IF NonPos(lump)
                 THEN [outcome |-> "returned", rate |-> Zero, status |-> "CRITICAL"]
                 ELSE LET rate == Div(gross_annual, lump)
                      IN  [outcome |-> "returned", rate |-> rate, status |-> Tier(rate)]

\* the method has no loop and writes nothing: one step
CallSwr(t) ==
    /\ th[t] = Idle
    /\ Keep(SwrHealth(inputs, lump_sum))
    /\ UNCHANGED <<inputs, lump_sum, horizon_months, th>>

SwrCapitals ==
    { Int2Num(c) : c \in {-4200, 0, 4000, 4200, 5250, 5600, 7000, 7200, 9000, 9600} }

SwrInputs ==
    { MkInputs(c, o, Zero, p, t, 1, Zero, Zero, Zero) :
        c \in SwrCapitals, o \in {Zero, One},
        p \in {Zero, One, Int2Num(21), Int2Num(22)},
        t \in {Zero, Frac(1, 5), One, Int2Num(2)} }

InitSwr ==
    /\ \E inp \in SwrInputs : inputs = inp
    /\ lump_sum = inputs.lump_sum
    /\ horizon_months = inputs.horizon_years * 12
    /\ th = [t \in Threads |-> Idle]
    /\ first = None
    /\ second = None

NextSwr == first = None /\ CallSwr(1)

SpecSwr == InitSwr /\ [][NextSwr]_vars

----------------------------------------------------------------------------
(* Properties of calculate_swr_health, checked under SpecSwr *)

\* the yearly shortfall of the input record, and the capital net of tax against
\* which it is measured: the rate is the quotient of the two
YearlyNeed == Mul(InitialShortfall(inputs), Int2Num(12))

NetCapital == Mul(lump_sum, Sub(One, inputs.tax_rate))

\* need / capital <= p / 1000, for capital > 0
AtMostPerMille(need, capital, p) == Leq(Mul(need, Int2Num(1000)), Mul(capital, Int2Num(p)))

\* the tier of the decision table for a positive shortfall and a positive capital
TierOfTable ==
    IF AtMostPerMille(YearlyNeed, NetCapital, 35) THEN "EXCELLENT (< 3.5%)"
    ELSE IF AtMostPerMille(YearlyNeed, NetCapital, 45) THEN "GOOD (Industry Std)"
    ELSE IF AtMostPerMille(YearlyNeed, NetCapital, 60) THEN "RISKY (High Risk)"
    ELSE "DANGER (> 6.0%)"

\* C5: for every input with tax rate < 1, calculate_swr_health returns rate 0 and
\* SECURE when the target spend does not exceed the two incomes, whatever the capital;
\* otherwise rate 0 and CRITICAL when the capital is <= 0; otherwise the rate
\* (shortfall * 12 / (1 - tax rate)) / capital and the tier EXCELLENT for a rate
\* <= 3.5%, GOOD for a rate <= 4.5%, RISKY for a rate <= 6.0% and DANGER above.
C5_ClassifierIsDecisionTable ==
    (first # None /\ Lt(inputs.tax_rate, One)) =>
        /\ first.outcome = "returned"
        /\ IF NonPos(InitialShortfall(inputs))
           THEN IsZero(first.rate) /\ first.status = "SECURE"
           ELSE IF NonPos(lump_sum)
           THEN IsZero(first.rate) /\ first.status = "CRITICAL"
           ELSE /\ NumEq(Mul(first.rate, NetCapital), YearlyNeed)
                /\ first.status = TierOfTable

\* a rate of exactly 3.5% classified EXCELLENT: shortfall 21 a month, no tax, capital 7200
C5_Witness ==
    /\ first # None /\ first.outcome = "returned"
    /\ Lt(inputs.tax_rate, One)
    /\ IsPos(InitialShortfall(inputs)) /\ IsPos(lump_sum)
    /\ NumEq(Mul(first.rate, Int2Num(1000)), Int2Num(35))
    /\ first.status = "EXCELLENT (< 3.5%)"

----------------------------------------------------------------------------
(* Two threads on one planner: thread 1 calls calculate_viability, thread 2    *)
(* solve_required_capital.  A step is one access to self.lump_sum together     *)
(* with the local computation that follows it.                                 *)

\* lines 27-61 after the read of line 19: the loop to its end and the return
FinishViability(t) ==
    /\ th[t].op = "calculate_viability"
    /\ th' = [th EXCEPT ![t] = Idle]
    /\ Keep(Outcome(t, RunLoop(inputs, horizon_months, th[t])))
    /\ UNCHANGED <<inputs, lump_sum, horizon_months>>

Kept(t) ==
    \/ first # None /\ first.thread = t
    \/ second # None /\ second.thread = t

ConcInputs ==
    { MkInputs(c, One, Zero, Int2Num(4), Zero, 1, Zero, Zero, Zero) :
        c \in {Int2Num(4), Int2Num(40)} }

InitConc ==
    /\ \E inp \in ConcInputs : inputs = inp
    /\ lump_sum = inputs.lump_sum
    /\ horizon_months = inputs.horizon_years * 12
    /\ th = [t \in Threads |-> Idle]
    /\ first = None
    /\ second = None

NextConc ==
    \/ ~Kept(1) /\ CallViability(1, NoShock)
    \/ FinishViability(1)
    \/ ~Kept(2) /\ CallSolve(2, NoShock)
    \/ SolveAssign(2)
    \/ SolveEval(2)
    \/ ReturnSolve(2)

SpecConc == InitConc /\ [][NextConc]_vars

----------------------------------------------------------------------------
(* Properties of two concurrent calls, checked under SpecConc *)

\* what the completed call of thread t left
KeptBy(t) == IF first # None /\ first.thread = t THEN first ELSE second

\* calculate_viability run alone on the planner as constructed
Alone == CalculateViability(inputs, horizon_months, inputs.lump_sum,
                            NoShock.crash_rate, NoShock.crash_years)

\* C7: a call of calculate_viability and a call of solve_required_capital that ran in
\* parallel on one planner do not interact: calculate_viability returns what it
\* returns when run alone, and self.lump_sum is unchanged once both have finished.
C7_ParallelCallsDoNotInteract ==
    (Kept(1) /\ Kept(2)) =>
        /\ NumEq(lump_sum, inputs.lump_sum)
        /\ NumEq(KeptBy(1).start, inputs.lump_sum)
        /\ KeptBy(1).is_solvent = Alone.is_solvent
        /\ KeptBy(1).insolvency_msg = Alone.insolvency_msg
        /\ NumEq(FinalBalance(KeptBy(1)), Alone.data[Len(Alone.data)].Balance)

====
